---- MODULE Spec2Model ----
(***************************************************************************)
(* Blink detector (blink-detector/app/page.tsx): calibration, blink state  *)
(* machine, rate estimator, alert arbiter and the control operations of    *)
(* the BlinkDetector component.                                            *)
(*                                                                         *)
(* The component keeps each value twice: a React state copy, which a       *)
(* setter changes only at the next render, and a ref copy, which frames    *)
(* read and write at once.  The model keeps both, the queue of state       *)
(* updates waiting for a render, and the set of ref-sync effects waiting   *)
(* to run after a render.                                                  *)
(*                                                                         *)
(* Numbers: times are milliseconds (Date.now()).  EAR values are integers  *)
(* in hundredths; a mean or a rate is an exact fraction [num, den].        *)
(***************************************************************************)
EXTENDS Integers, Sequences, FiniteSets, TLC

VARIABLES
    now,                        \* the wall clock, Date.now()
    blinkCount,                 \* React state (line 219)
    blinkTimestamps,            \* React state (line 220)
    baselineEARBuffer,          \* React state (line 221)
    baselineEAR,                \* React state (line 222)
    lastAlertTime,              \* React state (line 223)
    startTime,                  \* React state (line 224)
    lowBlinkThreshold,          \* React state (line 227)
    showAlertModal,             \* React state (line 255)
    consecutiveBlinkFramesRef,  \* ref (line 230)
    blinkTimestampsRef,         \* ref (line 231)
    baselineEARRef,             \* ref (line 232)
    baselineEARBufferRef,       \* ref (line 233)
    lastAlertTimeRef,           \* ref (line 236)
    isAlertActiveRef,           \* ref (line 237)
    startTimeRef,               \* ref (line 238)
    modalTimer,                 \* deadline of the armed auto-dismiss timeout, 0 = none
    queue,                      \* state updates waiting for the next render
    effects,                    \* ref-sync effects committed by a render, not yet run
    last,                       \* history: the operation that made this state
    run,                        \* history: closed frames seen by detection in a row
    fires,                      \* history: the times at which an alert fired
    processed,                  \* history: frames with a face handled since construction,
                                \* -1 once resetCalibration was called
    sinceReset,                 \* history: 0 from a resetCalibration to the next frame
                                \* with a face, 1 after that frame, -1 before any reset
    controlOps,                 \* history: control operations called so far
    lag,                        \* history: frames handled since React owes a render
    args,                       \* the arguments of a function applied on its own
    result,                     \* what it returned, <<>> before the call
    intervals,                  \* per processVideo call: startProcessing calls so far,
                                \* the last of them owns the live setInterval
    isProcessing,               \* the startProcessing closures whose flag is true
    inFlight,                   \* faceMesh.send calls that have not completed
    unmounted,                  \* the cleanup of the MediaPipe effect (lines 390-402) has run
    loopLast                    \* history: the last step of the processing loop

componentVars == <<now, blinkCount, blinkTimestamps, baselineEARBuffer, baselineEAR,
          lastAlertTime, startTime, lowBlinkThreshold, showAlertModal,
          consecutiveBlinkFramesRef, blinkTimestampsRef, baselineEARRef,
          baselineEARBufferRef, lastAlertTimeRef, isAlertActiveRef, startTimeRef,
          modalTimer, queue, effects, last, run, fires, processed, sinceReset,
          controlOps, lag>>

pureVars == <<args, result>>

loopVars == <<intervals, isProcessing, inFlight, unmounted, loopLast>>

otherVars == <<pureVars, loopVars>>

vars == <<componentVars, pureVars, loopVars>>

stateVars == <<blinkCount, blinkTimestamps, baselineEARBuffer, baselineEAR,
               lastAlertTime, startTime, lowBlinkThreshold, showAlertModal>>

refVars == <<consecutiveBlinkFramesRef, blinkTimestampsRef, baselineEARRef,
             baselineEARBufferRef, lastAlertTimeRef, isAlertActiveRef, startTimeRef>>

(***************************************************************************)
(* Program constants                                                       *)
(***************************************************************************)
BASELINE_FRAMES == 30
EAR_THRESHOLD_RATIO == 75
MIN_BLINK_FRAMES == 3
ROLLING_WINDOW_MINUTES == 4
DEFAULT_LOW_BLINK_THRESHOLD == 10
ALERT_COOLDOWN == 5
MIN_SESSION_TIME == 0
MIN_BLINKS_FOR_ALERT == 3
MODAL_AUTO_DISMISS_MS == 8000

(***************************************************************************)
(* Bounds of the model                                                     *)
(***************************************************************************)
\* the clock stops advancing here
MaxTime == 50000
\* and here when it advances in long steps
MaxLongTime == 370000
\* control operations (dismissals, resets, test notifications) in one behaviour
MaxControlOps == 1
\* frames handled in a row, without a step of React, while React owes a render or effects
MaxLag == 1
\* blink timestamps stored, or queued to be stored, at one time
MaxStored == 3
\* longest run of closed frames fed to detection
MaxRun == 4
\* calibration samples that may differ from the open-eye value
MaxCalVaried == 1
\* visibility changes in one behaviour of the processing loop
MaxRestarts == 2

\* how far the clock may move between two reads of Date.now() in one frame, ms
MaxDrift == 1

\* EAR of an open and of a closed eye, in hundredths
OpenEAR == 30
ClosedEAR == 20
EarValues == {ClosedEAR, OpenEAR}
\* the step of the clock
TickMs == 20 * 1000
\* the long step of the clock: half the rolling window
LongTickMs == 120 * 1000
FirstNow == 2 * ALERT_COOLDOWN * 1000

(***************************************************************************)
(* Values                                                                  *)
(***************************************************************************)
\* baselineEAR === null
Null == [num |-> 0, den |-> 0]

\* startTime === undefined (calculateBlinkRate's optional parameter)
Undefined == -1

\* the non-finite numbers an EAR can be
PosInfinity == -2
NaN == -3

Finite(x) == x # PosInfinity /\ x # NaN

\* eyeAspectRatio (lines 44-61) on the distances it measures: ab = A + B, the
\* two vertical distances, and c = C, the horizontal one; in hundredths.
\* A division by 0 gives Infinity, and NaN when A + B is 0 too.
eyeAspectRatio(ab, c) ==
    IF c = 0 THEN (IF ab = 0 THEN NaN ELSE PosInfinity)
    ELSE (ab * 100) \div (2 * c)

Min(a, b) == IF a <= b THEN a ELSE b

Max(a, b) == IF a >= b THEN a ELSE b

\* a == b on two means (or null)
SameNumber(a, b) ==
    IF a.den = 0 \/ b.den = 0 THEN a.den = b.den
    ELSE a.num * b.den = b.num * a.den

RECURSIVE Sum(_)
\* newBuffer.reduce((a, b) => a + b, 0)
Sum(s) == IF s = <<>> THEN 0 ELSE Head(s) + Sum(Tail(s))

\* newBuffer.reduce(...) / newBuffer.length
Mean(buffer) == [num |-> Sum(buffer), den |-> Len(buffer)]

\* (leftEARValue + rightEARValue) / 2.0
AvgEAR(l, r) == (l + r) \div 2

\* a faulty variant of BelowThreshold: !(ear >= threshold), true of NaN
NotAtLeastThreshold(ear, baseline) == ear = NaN \/ (Finite(ear) /\ ~(ear * baseline.den * 100 >= baseline.num * EAR_THRESHOLD_RATIO))

\* ear < baseline * EAR_THRESHOLD_RATIO; < is false of NaN and of Infinity
BelowThreshold(ear, baseline) ==
    /\ Finite(ear)
    /\ ear * baseline.den * 100 < baseline.num * EAR_THRESHOLD_RATIO

\* a faulty variant of bothEyesClosed: || in place of &&
eitherEyeClosed(l, r, baseline) == BelowThreshold(l, baseline) \/ BelowThreshold(r, baseline)

\* (leftEARValue < adaptiveThreshold) && (rightEARValue < adaptiveThreshold)
bothEyesClosed(l, r, baseline) ==
    BelowThreshold(l, baseline) /\ BelowThreshold(r, baseline)

WindowMs(windowMinutes) == windowMinutes * 60 * 1000

\* a faulty variant of Recent: > in place of >=
RecentStrict(timestamps, cutoffTime) == SelectSeq(timestamps, LAMBDA t : t > cutoffTime)

\* timestamps.filter(t => t >= cutoffTime)
Recent(timestamps, cutoffTime) == SelectSeq(timestamps, LAMBDA t : t >= cutoffTime)

\* calculateBlinkRate, as the fraction blinks / minute
calculateBlinkRate(timestamps, windowMinutes, start, currentTime) ==
    LET cutoffTime == currentTime - WindowMs(windowMinutes)
        recentBlinks == Recent(timestamps, cutoffTime)
        elapsedTime ==
            IF start # Undefined
            THEN Min(currentTime - start, WindowMs(windowMinutes))
            ELSE Min(currentTime - recentBlinks[1], WindowMs(windowMinutes))
    IN  IF Len(recentBlinks) = 0 THEN [num |-> 0, den |-> 1]
        ELSE [num |-> Len(recentBlinks) * 60 * 1000, den |-> Max(elapsedTime, 1000)]

\* currentRate < lowBlinkThreshold
IsLow(rate, threshold) == rate.num < threshold * rate.den

\* sessionTime >= MIN_SESSION_TIME, sessionTime = (Date.now() - startTimeRef.current) / 1000
SessionLongEnough(t, start) == t - start >= MIN_SESSION_TIME * 1000

\* a faulty variant of EnoughBlinks: > in place of >=
MoreThanEnoughBlinks(timestamps) == Len(timestamps) > MIN_BLINKS_FOR_ALERT

\* blinkTimestampsRef.current.length >= MIN_BLINKS_FOR_ALERT
EnoughBlinks(timestamps) == Len(timestamps) >= MIN_BLINKS_FOR_ALERT

\* !isAlertActiveRef.current && timeSinceLastAlert > ALERT_COOLDOWN * 1000
canAlert(active, currentTime, lastAlert) ==
    ~active /\ currentTime - lastAlert > ALERT_COOLDOWN * 1000

\* a faulty variant of ShouldAlert: the number of stored blinks is not examined
ShouldAlertAnyCount(rate, threshold, tSession, start, timestamps, active, tAlert, lastAlert) ==
    /\ IsLow(rate, threshold)
    /\ SessionLongEnough(tSession, start)
    /\ canAlert(active, tAlert, lastAlert)

\* the condition of the alert's if statement
ShouldAlert(rate, threshold, tSession, start, timestamps, active, tAlert, lastAlert) ==
    /\ IsLow(rate, threshold)
    /\ SessionLongEnough(tSession, start)
    /\ EnoughBlinks(timestamps)
    /\ canAlert(active, tAlert, lastAlert)

\* a faulty variant of ValidBlink: > in place of >=
ValidBlinkStrict(frames) == frames > MIN_BLINK_FRAMES

\* consecutiveBlinkFramesRef.current >= MIN_BLINK_FRAMES
ValidBlink(frames) == frames >= MIN_BLINK_FRAMES

(***************************************************************************)
(* The queue of state updates.  A setter with a value replaces the pending *)
(* value; setBlinkCount and setBlinkTimestamps queue updater functions,    *)
(* which run in order at the render.                                       *)
(***************************************************************************)
EmptyQueue ==
    [blinkCount |-> 0, blinkTimestamps |-> <<>>, baselineEARBuffer |-> <<>>,
     baselineEAR |-> <<>>, lastAlertTime |-> <<>>, startTime |-> <<>>,
     lowBlinkThreshold |-> <<>>, showAlertModal |-> <<>>]

ClearOp == [op |-> "clear", t |-> 0]

AppendOp(t) == [op |-> "append", t |-> t]

\* setBlinkTimestamps([]); two in a row are one
QueueClear(ops) ==
    IF ops # <<>> /\ ops[Len(ops)].op = "clear" THEN ops ELSE Append(ops, ClearOp)

\* a faulty variant of AppendAndPrune: the filter is missing
AppendOnly(prev, currentTime) == Append(prev, currentTime)

\* the updater of setBlinkTimestamps: append, then drop what is older than the window
AppendAndPrune(prev, currentTime) ==
    Recent(Append(prev, currentTime), currentTime - WindowMs(ROLLING_WINDOW_MINUTES))

RECURSIVE ApplyOps(_, _)
\* the queued blinkTimestamps updates applied in order to the state value
ApplyOps(prev, ops) ==
    IF ops = <<>> THEN prev
    ELSE ApplyOps(IF Head(ops).op = "clear" THEN <<>>
                  ELSE AppendAndPrune(prev, Head(ops).t), Tail(ops))

\* index of the last updater function in the queue, 0 if none
LastAppend(ops) ==
    LET idx == {i \in 1..Len(ops) : ops[i].op = "append"}
    IN  IF idx = {} THEN 0 ELSE CHOOSE i \in idx : \A j \in idx : j <= i

\* the pending value if any, else the current one
Pending(q, cur) == IF q = <<>> THEN cur ELSE q[1]

\* committed plus queued increments of blinkCount
TotalBlinkCount == blinkCount + queue.blinkCount

\* what the history keeps of an operation
Event(op) ==
    [op |-> op, closed |-> FALSE, committed |-> FALSE, fired |-> FALSE, run |-> 0]

(***************************************************************************)
(* Init: the component after its first render                              *)
(***************************************************************************)
ComponentInit ==
    /\ now = FirstNow
    /\ blinkCount = 0
    /\ blinkTimestamps = <<>>
    /\ baselineEARBuffer = <<>>
    /\ baselineEAR = Null
    /\ lastAlertTime = 0
    /\ startTime = FirstNow
    /\ lowBlinkThreshold = DEFAULT_LOW_BLINK_THRESHOLD
    /\ showAlertModal = FALSE
    /\ consecutiveBlinkFramesRef = 0
    /\ blinkTimestampsRef = <<>>
    /\ baselineEARRef = Null
    /\ baselineEARBufferRef = <<>>
    /\ lastAlertTimeRef = 0
    /\ isAlertActiveRef = FALSE
    /\ startTimeRef = FirstNow
    /\ modalTimer = 0
    /\ queue = EmptyQueue
    /\ effects = {}
    /\ last = Event("other")
    /\ run = 0
    /\ fires = <<>>
    /\ processed = 0
    /\ sinceReset = -1
    /\ controlOps = 0
    /\ lag = 0

\* no function is applied on its own
PureIdle == args = <<>> /\ result = <<>>

\* the two calls of processVideo: line 376 (initMediaPipe) and line 568
\* (onloadedmetadata, after play())
Sites == {"initMediaPipe", "onloadedmetadata"}

\* processVideo has not been called
LoopIdle ==
    /\ intervals = [site \in Sites |-> 0]
    /\ isProcessing = {}
    /\ inFlight = 0
    /\ unmounted = FALSE
    /\ loopLast = "none"

Init == ComponentInit /\ PureIdle /\ LoopIdle

(***************************************************************************)
(* The inputs of a frame                                                   *)
(***************************************************************************)
\* The values Date.now() returns at lines 839, 65, 865 and 877 of one
\* frame: the clock may move between two reads.
Reads == {[i \in 1..4 |-> now]}

\* what the history keeps of a frame: its branch, whether both eyes were closed,
\* whether it committed a blink or fired an alert, the closed run before it
FrameEvent(mode, closed, committed, fired, before) ==
    [op |-> mode, closed |-> closed, committed |-> committed, fired |-> fired,
     run |-> before]

\* frames counted up to the first one after calibration
CountFrame ==
    /\ processed' = IF processed < 0 \/ processed > BASELINE_FRAMES
                        THEN processed ELSE processed + 1
    /\ sinceReset' = IF sinceReset < 0 THEN sinceReset ELSE 1
    /\ UNCHANGED otherVars

\* React owes a render or the effects of one
Busy == queue # EmptyQueue \/ effects # {}

\* a frame arrives while React is busy only MaxLag times in a row
FrameLag == /\ Busy => lag < MaxLag
            /\ lag' = IF Busy THEN lag + 1 ELSE 0

(***************************************************************************)
(* onResults (lines 751-912), one branch per definition                    *)
(***************************************************************************)
\* lines 775-778: no face in the result
NoFace == UNCHANGED vars

\* a faulty variant of Calibrate: a calibration frame counts as a closed frame
CalibrateCountingRun(l, r) ==
    LET avgEAR == AvgEAR(l, r)
        newBuffer == Append(baselineEARBufferRef, avgEAR)
        newBaseline == Mean(newBuffer)
    IN  /\ queue' = [queue EXCEPT !.baselineEARBuffer = <<newBuffer>>,
                                  !.baselineEAR = <<newBaseline>>]
        /\ baselineEARBufferRef' = newBuffer
        /\ baselineEARRef' = newBaseline
        /\ consecutiveBlinkFramesRef' = consecutiveBlinkFramesRef + 1
        /\ last' = FrameEvent("calibrate", FALSE, FALSE, FALSE, 0)
        /\ FrameLag
        /\ CountFrame
        /\ UNCHANGED <<now, stateVars, blinkTimestampsRef,
                       lastAlertTimeRef, isAlertActiveRef, startTimeRef, modalTimer,
                       effects, run, fires, controlOps>>

\* lines 804-818: update_baseline_ear
Calibrate(l, r) ==
    LET avgEAR == AvgEAR(l, r)
        newBuffer == Append(baselineEARBufferRef, avgEAR)
        newBaseline == Mean(newBuffer)
    IN  /\ queue' = [queue EXCEPT !.baselineEARBuffer = <<newBuffer>>,
                                  !.baselineEAR = <<newBaseline>>]
        /\ baselineEARBufferRef' = newBuffer
        /\ baselineEARRef' = newBaseline
        /\ last' = FrameEvent("calibrate", FALSE, FALSE, FALSE, 0)
        /\ FrameLag
        /\ CountFrame
        /\ UNCHANGED <<now, stateVars, consecutiveBlinkFramesRef, blinkTimestampsRef,
                       lastAlertTimeRef, isAlertActiveRef, startTimeRef, modalTimer,
                       effects, run, fires, controlOps>>

\* line 821: if (baselineEARRef.current === null) return
NoBaseline == UNCHANGED vars

\* lines 829-858: the blink run counter after the frame
NextConsecutive(closed, frames) == IF closed THEN frames + 1 ELSE 0

\* lines 838-855: the updates a valid blink queues
CommitBlink(q, currentTime) ==
    [q EXCEPT !.blinkCount = @ + 1,
              !.blinkTimestamps = Append(@, AppendOp(currentTime))]

\* a faulty variant of FireAlert: the firing frame restarts the session too
FireAlertRestartingSession(q, currentTime) == [q EXCEPT !.lastAlertTime = <<currentTime>>, !.showAlertModal = <<TRUE>>, !.startTime = <<currentTime>>]

\* lines 893-909: the updates a firing alert queues
FireAlert(q, currentTime) ==
    [q EXCEPT !.lastAlertTime = <<currentTime>>, !.showAlertModal = <<TRUE>>]

\* a faulty variant of ActiveAfter: the firing frame does not set the flag
ActiveStays(active, fired) == active

\* line 893: isAlertActiveRef.current = true, inside the alert's if statement
ActiveAfter(active, fired) == active \/ fired

\* lines 823-910: detection, rate and alert
Detect(l, r, rd) ==
    LET closed == bothEyesClosed(l, r, baselineEARRef)
        committed == ~closed /\ ValidBlink(consecutiveBlinkFramesRef)
        currentRate == calculateBlinkRate(blinkTimestampsRef, ROLLING_WINDOW_MINUTES,
                                          startTimeRef, rd[2])
        fired == ShouldAlert(currentRate, lowBlinkThreshold, rd[3], startTimeRef,
                             blinkTimestampsRef, isAlertActiveRef, rd[4],
                             lastAlertTimeRef)
        q1 == IF committed THEN CommitBlink(queue, rd[1]) ELSE queue
    IN  /\ closed => consecutiveBlinkFramesRef < MaxRun
        /\ committed => Len(ApplyOps(blinkTimestamps, queue.blinkTimestamps)) < MaxStored
        /\ consecutiveBlinkFramesRef' = NextConsecutive(closed, consecutiveBlinkFramesRef)
        /\ isAlertActiveRef' = ActiveAfter(isAlertActiveRef, fired)
        /\ lastAlertTimeRef' = IF fired THEN rd[4] ELSE lastAlertTimeRef
        /\ queue' = IF fired THEN FireAlert(q1, rd[4]) ELSE q1
        /\ now' = rd[4]
        /\ last' = FrameEvent("detect", closed, committed, fired, run)
        /\ run' = IF closed THEN run + 1 ELSE 0
        /\ fires' = IF fired THEN Append(fires, rd[4]) ELSE fires
        /\ FrameLag
        /\ CountFrame
        /\ UNCHANGED <<stateVars, blinkTimestampsRef, baselineEARRef,
                       baselineEARBufferRef, startTimeRef, modalTimer, effects,
                       controlOps>>

\* onResults: the result of one frame sent to MediaPipe
onResults(face, l, r, rd) ==
    IF ~face THEN NoFace
    ELSE IF Len(baselineEARBufferRef) < BASELINE_FRAMES
         THEN /\ Len(baselineEARBufferRef) < MaxCalVaried \/ (l = OpenEAR /\ r = OpenEAR)
              /\ Calibrate(l, r)
    ELSE IF baselineEARRef = Null THEN NoBaseline
    ELSE Detect(l, r, rd)

(***************************************************************************)
(* Control operations                                                      *)
(***************************************************************************)
\* a control operation counts against MaxControlOps
ControlOp == /\ controlOps < MaxControlOps
             /\ controlOps' = controlOps + 1
             /\ UNCHANGED <<lag, fires>>

\* a faulty variant of dismissAlert: blinkTimestampsRef.current is not emptied
dismissAlertStateOnly ==
    /\ showAlertModal
    /\ isAlertActiveRef' = FALSE
    /\ modalTimer' \in {modalTimer, 0}
    /\ startTimeRef' = now
    /\ queue' = [queue EXCEPT !.showAlertModal = <<FALSE>>,
                              !.startTime = <<now>>,
                              !.blinkTimestamps = QueueClear(@)]
    /\ last' = Event("dismissAlert")
    /\ ControlOp
    /\ UNCHANGED <<run, processed, sinceReset, otherVars>>
    /\ UNCHANGED <<now, stateVars, consecutiveBlinkFramesRef, blinkTimestampsRef,
                   baselineEARRef, baselineEARBufferRef, lastAlertTimeRef, effects>>

\* dismissAlert (lines 275-299); the modal's button, its backdrop and ESC
\* call it, all of them only while the modal is shown.  clearTimeout runs
\* when the rendered modalDismissTimer holds the armed timeout.
dismissAlert ==
    /\ showAlertModal
    /\ isAlertActiveRef' = FALSE
    /\ modalTimer' \in {modalTimer, 0}
    /\ startTimeRef' = now
    /\ blinkTimestampsRef' = <<>>
    /\ queue' = [queue EXCEPT !.showAlertModal = <<FALSE>>,
                              !.startTime = <<now>>,
                              !.blinkTimestamps = QueueClear(@)]
    /\ last' = Event("dismissAlert")
    /\ ControlOp
    /\ UNCHANGED <<run, processed, sinceReset, otherVars>>
    /\ UNCHANGED <<now, stateVars, consecutiveBlinkFramesRef, baselineEARRef,
                   baselineEARBufferRef, lastAlertTimeRef, effects>>

\* a faulty variant of resetCalibration: setBaselineEAR(null) is missing
resetCalibrationKeepingBaseline ==
    /\ queue' = [queue EXCEPT !.baselineEARBuffer = << <<>> >>,
                              !.blinkTimestamps = QueueClear(@),
                              !.startTime = <<now>>]
    /\ consecutiveBlinkFramesRef' = 0
    /\ startTimeRef' = now
    /\ last' = Event("resetCalibration")
    /\ ControlOp
    /\ run' = 0
    /\ processed' = -1
    /\ sinceReset' = 0
    /\ UNCHANGED otherVars
    /\ UNCHANGED <<now, stateVars, blinkTimestampsRef, baselineEARRef,
                   baselineEARBufferRef, lastAlertTimeRef, isAlertActiveRef,
                   modalTimer, effects>>

\* resetCalibration (lines 302-313)
resetCalibration ==
    /\ queue' = [queue EXCEPT !.baselineEARBuffer = << <<>> >>,
                              !.baselineEAR = <<Null>>,
                              !.blinkTimestamps = QueueClear(@),
                              !.startTime = <<now>>]
    /\ consecutiveBlinkFramesRef' = 0
    /\ startTimeRef' = now
    /\ last' = Event("resetCalibration")
    /\ ControlOp
    /\ run' = 0
    /\ processed' = -1
    /\ sinceReset' = 0
    /\ UNCHANGED otherVars
    /\ UNCHANGED <<now, stateVars, blinkTimestampsRef, baselineEARRef,
                   baselineEARBufferRef, lastAlertTimeRef, isAlertActiveRef,
                   modalTimer, effects>>

\* a faulty variant of resetBlinkTracking: only the alert is reset, the
\* session start and the blink timestamps stay
resetBlinkTrackingKeepingSession ==
    /\ queue' = [queue EXCEPT !.lastAlertTime = <<0>>]
    /\ lastAlertTimeRef' = 0
    /\ isAlertActiveRef' = FALSE
    /\ last' = Event("resetBlinkTracking")
    /\ ControlOp
    /\ UNCHANGED <<now, stateVars, consecutiveBlinkFramesRef, blinkTimestampsRef,
                   startTimeRef, baselineEARRef, baselineEARBufferRef, modalTimer,
                   effects, run, processed, sinceReset, otherVars>>

\* a faulty variant of resetBlinkTracking: startTimeRef.current is not set
resetBlinkTrackingStateOnly ==
    /\ queue' = [queue EXCEPT !.startTime = <<now>>,
                              !.blinkTimestamps = QueueClear(@),
                              !.lastAlertTime = <<0>>]
    /\ blinkTimestampsRef' = <<>>
    /\ lastAlertTimeRef' = 0
    /\ isAlertActiveRef' = FALSE
    /\ last' = Event("resetBlinkTracking")
    /\ ControlOp
    /\ UNCHANGED <<now, stateVars, consecutiveBlinkFramesRef, startTimeRef,
                   baselineEARRef, baselineEARBufferRef, modalTimer, effects, run,
                   processed, sinceReset, otherVars>>

\* a faulty variant of resetBlinkTracking: it calls setBlinkCount(0) as well
resetBlinkTrackingZeroingCount ==
    /\ queue' = [queue EXCEPT !.startTime = <<now>>,
                              !.blinkTimestamps = QueueClear(@),
                              !.lastAlertTime = <<0>>,
                              !.blinkCount = 0 - blinkCount]
    /\ startTimeRef' = now
    /\ blinkTimestampsRef' = <<>>
    /\ lastAlertTimeRef' = 0
    /\ isAlertActiveRef' = FALSE
    /\ last' = Event("resetBlinkTracking")
    /\ ControlOp
    /\ UNCHANGED <<now, stateVars, consecutiveBlinkFramesRef, baselineEARRef,
                   baselineEARBufferRef, modalTimer, effects, run, processed, sinceReset, otherVars>>

\* resetBlinkTracking (lines 316-332)
resetBlinkTracking ==
    /\ queue' = [queue EXCEPT !.startTime = <<now>>,
                              !.blinkTimestamps = QueueClear(@),
                              !.lastAlertTime = <<0>>]
    /\ startTimeRef' = now
    /\ blinkTimestampsRef' = <<>>
    /\ lastAlertTimeRef' = 0
    /\ isAlertActiveRef' = FALSE
    /\ last' = Event("resetBlinkTracking")
    /\ ControlOp
    /\ UNCHANGED <<now, stateVars, consecutiveBlinkFramesRef, baselineEARRef,
                   baselineEARBufferRef, modalTimer, effects, run, processed, sinceReset, otherVars>>

\* the 't' key and the Test Notifications button (lines 415-421, 1032-1037)
testNotification ==
    /\ queue' = [queue EXCEPT !.showAlertModal = <<TRUE>>]
    /\ last' = Event("testNotification")
    /\ ControlOp
    /\ UNCHANGED <<now, stateVars, refVars, modalTimer, effects, run, processed, sinceReset, otherVars>>

\* a faulty variant of autoDismiss: the timeout clears the active flag too
autoDismissClearing ==
    /\ modalTimer # 0
    /\ now >= modalTimer
    /\ modalTimer' = 0
    /\ isAlertActiveRef' = FALSE
    /\ queue' = [queue EXCEPT !.showAlertModal = <<FALSE>>]
    /\ last' = Event("autoDismiss")
    /\ UNCHANGED <<now, stateVars, consecutiveBlinkFramesRef, blinkTimestampsRef,
                   baselineEARRef, baselineEARBufferRef, lastAlertTimeRef, startTimeRef,
                   effects, run, fires, processed, sinceReset, otherVars, controlOps, lag>>

\* a faulty variant of autoDismiss: the timeout does what dismissAlert does
autoDismissEndingAlert ==
    /\ modalTimer # 0
    /\ now >= modalTimer
    /\ modalTimer' = 0
    /\ isAlertActiveRef' = FALSE
    /\ startTimeRef' = now
    /\ blinkTimestampsRef' = <<>>
    /\ queue' = [queue EXCEPT !.showAlertModal = <<FALSE>>,
                              !.startTime = <<now>>,
                              !.blinkTimestamps = QueueClear(@)]
    /\ last' = Event("autoDismiss")
    /\ UNCHANGED <<now, stateVars, consecutiveBlinkFramesRef, baselineEARRef,
                   baselineEARBufferRef, lastAlertTimeRef, effects, run, fires, processed,
                   sinceReset, otherVars, controlOps, lag>>

\* the callback of the auto-dismiss timeout (lines 263-266)
autoDismiss ==
    /\ modalTimer # 0
    /\ now >= modalTimer
    /\ modalTimer' = 0
    /\ queue' = [queue EXCEPT !.showAlertModal = <<FALSE>>]
    /\ last' = Event("autoDismiss")
    /\ UNCHANGED <<now, stateVars, refVars, effects, run, fires, processed, sinceReset, otherVars, controlOps, lag>>

(***************************************************************************)
(* React: a render applies the queued updates to the state; the effects    *)
(* whose dependency changed run later (lines 261-273 and 919-937).         *)
(***************************************************************************)
\* the state values whose effect a render of queue q schedules
Changed(q) ==
    {n \in {"blinkTimestamps"} : q.blinkTimestamps # <<>>}
    \cup {n \in {"baselineEARBuffer"} : q.baselineEARBuffer # <<>>}
    \cup {n \in {"baselineEAR"} :
            q.baselineEAR # <<>> /\ ~SameNumber(q.baselineEAR[1], baselineEAR)}
    \cup {n \in {"lastAlertTime"} :
            q.lastAlertTime # <<>> /\ q.lastAlertTime[1] # lastAlertTime}
    \cup {n \in {"startTime"} : q.startTime # <<>> /\ q.startTime[1] # startTime}
    \cup {n \in {"showAlertModal"} :
            q.showAlertModal # <<>> /\ q.showAlertModal[1] # showAlertModal}

\* blinkTimestampsRef after the render ran the queued updaters: the last
\* updater function assigns its result to the ref (line 852)
RefAfterUpdaters(ref, prev, ops) ==
    IF LastAppend(ops) = 0 THEN ref
    ELSE ApplyOps(prev, SubSeq(ops, 1, LastAppend(ops)))

\* a render of the component
Render ==
    /\ queue # EmptyQueue
    /\ effects = {}
    /\ blinkCount' = blinkCount + queue.blinkCount
    /\ blinkTimestamps' = ApplyOps(blinkTimestamps, queue.blinkTimestamps)
    /\ blinkTimestampsRef' =
           RefAfterUpdaters(blinkTimestampsRef, blinkTimestamps, queue.blinkTimestamps)
    /\ baselineEARBuffer' = Pending(queue.baselineEARBuffer, baselineEARBuffer)
    /\ baselineEAR' = Pending(queue.baselineEAR, baselineEAR)
    /\ lastAlertTime' = Pending(queue.lastAlertTime, lastAlertTime)
    /\ startTime' = Pending(queue.startTime, startTime)
    /\ lowBlinkThreshold' = Pending(queue.lowBlinkThreshold, lowBlinkThreshold)
    /\ showAlertModal' = Pending(queue.showAlertModal, showAlertModal)
    /\ effects' = Changed(queue)
    /\ queue' = EmptyQueue
    /\ last' = Event("other")
    /\ lag' = 0
    /\ UNCHANGED <<now, consecutiveBlinkFramesRef, baselineEARRef, baselineEARBufferRef,
                   lastAlertTimeRef, isAlertActiveRef, startTimeRef, modalTimer, run,
                   fires, processed, sinceReset, otherVars, controlOps>>

\* a ref after its sync effect, if that effect is scheduled
Synced(name, ref, value) == IF name \in effects THEN value ELSE ref

\* the effects of the last render
Effects ==
    /\ effects # {}
    /\ blinkTimestampsRef' = Synced("blinkTimestamps", blinkTimestampsRef, blinkTimestamps)
    /\ baselineEARRef' = Synced("baselineEAR", baselineEARRef, baselineEAR)
    /\ baselineEARBufferRef' =
           Synced("baselineEARBuffer", baselineEARBufferRef, baselineEARBuffer)
    /\ lastAlertTimeRef' = Synced("lastAlertTime", lastAlertTimeRef, lastAlertTime)
    /\ startTimeRef' = Synced("startTime", startTimeRef, startTime)
    /\ modalTimer' = Synced("showAlertModal", modalTimer,
                            IF showAlertModal THEN now + MODAL_AUTO_DISMISS_MS ELSE 0)
    /\ effects' = {}
    /\ last' = Event("other")
    /\ lag' = 0
    /\ UNCHANGED <<now, stateVars, consecutiveBlinkFramesRef, isAlertActiveRef,
                   queue, run, fires, processed, sinceReset, otherVars, controlOps>>

(***************************************************************************)
(* Time.  A step of the clock is seconds long: React has rendered and run  *)
(* its effects by then.                                                    *)
(***************************************************************************)
Tick ==
    /\ now + TickMs <= MaxTime
    /\ queue = EmptyQueue
    /\ effects = {}
    /\ now' = now + TickMs
    /\ last' = Event("other")
    /\ UNCHANGED <<stateVars, refVars, modalTimer, queue, effects, run, fires, processed, sinceReset, otherVars,
                   controlOps, lag>>

Frame == \E face \in BOOLEAN, l \in EarValues, r \in EarValues, rd \in Reads :
             onResults(face, l, r, rd)

Next ==
    \/ Frame
    \/ dismissAlert
    \/ resetCalibration
    \/ resetBlinkTracking
    \/ testNotification
    \/ autoDismiss
    \/ Render
    \/ Effects
    \/ Tick

Spec == Init /\ [][Next]_vars

(***************************************************************************)
(* A session of minutes: the clock advances in long steps, past the        *)
(* rolling window, and the user leaves the controls alone.                 *)
(***************************************************************************)
LongTick ==
    /\ now + LongTickMs <= MaxLongTime
    /\ queue = EmptyQueue
    /\ effects = {}
    /\ now' = now + LongTickMs
    /\ last' = Event("other")
    /\ UNCHANGED <<stateVars, refVars, modalTimer, queue, effects, run, fires, processed,
                   sinceReset, otherVars, controlOps, lag>>

WindowNext ==
    \/ Frame
    \/ autoDismiss
    \/ Render
    \/ Effects
    \/ LongTick

WindowSpec == Init /\ [][WindowNext]_vars

(***************************************************************************)
(* The closed-eye test and the run counter on their own: one detection     *)
(* frame (lines 823-858) applied to EARs computed by eyeAspectRatio from   *)
(* drawn distances, a drawn baseline and a drawn run length.               *)
(***************************************************************************)
\* the sums A + B and the widths C an eye is drawn from
EyeSums == {0, 4, 5, 6}
EyeWidths == {0, 10}
\* the baselines: 0.30, 0.40 (threshold exactly 0.30) and 8.0 / 30
EyeBaselines == {[num |-> 30, den |-> 1], [num |-> 40, den |-> 1], [num |-> 800, den |-> 30]}

EyeArgs ==
    [lab : EyeSums, lc : EyeWidths, rab : EyeSums, rc : EyeWidths,
     baseline : EyeBaselines, frames : 0..MaxRun]

EyeInit == ComponentInit /\ LoopIdle /\ args \in EyeArgs /\ result = <<>>

\* lines 796-797 and 823-858 on the drawn arguments
ApplyDetection ==
    LET l == eyeAspectRatio(args.lab, args.lc)
        r == eyeAspectRatio(args.rab, args.rc)
        closed == bothEyesClosed(l, r, args.baseline)
    IN  /\ result = <<>>
        /\ result' = <<[l |-> l, r |-> r, closed |-> closed,
                        committed |-> ~closed /\ ValidBlink(args.frames),
                        frames |-> NextConsecutive(closed, args.frames)]>>
        /\ UNCHANGED <<componentVars, loopVars, args>>

EyeNext == ApplyDetection

EyeSpec == EyeInit /\ [][EyeNext]_vars

(***************************************************************************)
(* calculateBlinkRate on its own, on drawn timestamps, session start and   *)
(* clock                                                                   *)
(***************************************************************************)
RateTimes == {0, 10000, 20000, 100000}
RateClocks == {20500, 30000, 250000, 260000, 400000}
RateStarts == {0, 20000, Undefined}

\* ascending timestamps, none before the session start nor after the clock
RateArgs ==
    {a \in [timestamps : UNION {[1..n -> RateTimes] : n \in 0..3},
            start : RateStarts, currentTime : RateClocks] :
        /\ \A i \in 1..Len(a.timestamps) :
               /\ a.timestamps[i] <= a.currentTime
               /\ a.start # Undefined => a.timestamps[i] >= a.start
               /\ i > 1 => a.timestamps[i - 1] < a.timestamps[i]
        /\ a.start # Undefined => a.start <= a.currentTime}

RateInit == ComponentInit /\ LoopIdle /\ args \in RateArgs /\ result = <<>>

\* line 861: calculateBlinkRate(timestamps, ROLLING_WINDOW_MINUTES, start)
ApplyRate ==
    /\ result = <<>>
    /\ result' = <<calculateBlinkRate(args.timestamps, ROLLING_WINDOW_MINUTES,
                                      args.start, args.currentTime)>>
    /\ UNCHANGED <<componentVars, loopVars, args>>

RateNext == ApplyRate

RateSpec == RateInit /\ [][RateNext]_vars

(***************************************************************************)
(* The processing loop (processVideo, lines 587-748).  Each call of        *)
(* processVideo has its own processingInterval; each call of               *)
(* startProcessing clears that interval, sets a new one and declares a new *)
(* isProcessing flag (line 682), which the new interval's callback alone   *)
(* reads and writes.  A closure is the pair <<site, n>> of the n-th call   *)
(* of startProcessing by the processVideo of that site.                    *)
(***************************************************************************)
LoopInit == ComponentInit /\ PureIdle /\ LoopIdle

\* the call of processVideo whose cleanup function the effect keeps
\* (cleanupProcessing, line 376); the one of line 568 is dropped by setTimeout
Kept == "initMediaPipe"

\* the interval of a site is set and was not cleared; so is its
\* visibilitychange listener (lines 737-742 clear and remove both)
Live(site) == intervals[site] > 0 /\ ~(unmounted /\ site = Kept)

\* processVideo: line 376, then line 568 once the video plays; it adds the
\* visibilitychange listener and calls startProcessing (lines 733-734).
\* After the unmount videoRef.current is null and the call does nothing.
processVideo(site) ==
    /\ ~unmounted
    /\ intervals[site] = 0
    /\ site = "onloadedmetadata" => intervals["initMediaPipe"] > 0
    /\ intervals' = [intervals EXCEPT ![site] = 1]
    /\ loopLast' = "processVideo"
    /\ UNCHANGED <<componentVars, pureVars, isProcessing, inFlight, unmounted>>

\* handleVisibilityChange (lines 725-731), the listener of every processVideo
\* that was called: startProcessing again
handleVisibilityChange ==
    /\ \E site \in Sites : Live(site)
    /\ \A site \in Sites : intervals[site] <= MaxRestarts
    /\ intervals' = [site \in Sites |->
                        IF Live(site) THEN intervals[site] + 1 ELSE intervals[site]]
    /\ loopLast' = "visibilitychange"
    /\ UNCHANGED <<componentVars, pureVars, isProcessing, inFlight, unmounted>>

\* the callback of the live interval of a site (lines 687-721), up to the
\* await of faceMesh.send; with no frame to send (line 616) process returns
\* and the flag is false again before anything else runs
intervalCallback(site, ready) ==
    LET closure == <<site, intervals[site]>>
    IN  /\ Live(site)
        /\ IF closure \in isProcessing
           THEN /\ loopLast' = "skip"
                /\ UNCHANGED <<isProcessing, inFlight>>
           ELSE IF ready
           THEN /\ isProcessing' = isProcessing \cup {closure}
                /\ inFlight' = inFlight + 1
                /\ loopLast' = "send"
           ELSE /\ loopLast' = "nothing to send"
                /\ UNCHANGED <<isProcessing, inFlight>>
        /\ UNCHANGED <<componentVars, pureVars, intervals, unmounted>>

\* faceMesh.send resolves or rejects: the callback resumes and its finally
\* block resets the flag of its own closure (lines 718-720)
sendCompletes(closure) ==
    /\ closure \in isProcessing
    /\ isProcessing' = isProcessing \ {closure}
    /\ inFlight' = inFlight - 1
    /\ loopLast' = "completed"
    /\ UNCHANGED <<componentVars, pureVars, intervals, unmounted>>

\* the cleanup of the MediaPipe effect (lines 390-402), at the unmount: it
\* calls cleanupProcessing, the cleanup function of the kept processVideo
\* call, if that call was made
cleanup ==
    /\ ~unmounted
    /\ unmounted' = TRUE
    /\ loopLast' = "cleanup"
    /\ UNCHANGED <<componentVars, pureVars, intervals, isProcessing, inFlight>>

LoopNext ==
    \/ \E site \in Sites : processVideo(site)
    \/ handleVisibilityChange
    \/ \E site \in Sites, ready \in BOOLEAN : intervalCallback(site, ready)
    \/ \E closure \in isProcessing : sendCompletes(closure)
    \/ cleanup

LoopSpec == LoopInit /\ [][LoopNext]_vars

(***************************************************************************)
(* The alert threshold slider (lines 1000-1012) on its own.  The handler   *)
(* passes Number(e.target.value) to setLowBlinkThreshold as it is; the     *)
(* range 5..25 is an attribute of the input element, not a test the        *)
(* handler makes.                                                          *)
(***************************************************************************)
\* the numbers a change event may carry
SliderValues == 0..30

\* onChange of the slider (lines 1006-1010)
onChange(value) ==
    /\ queue' = [queue EXCEPT !.lowBlinkThreshold = <<value>>]
    /\ last' = Event("setLowBlinkThreshold")
    /\ UNCHANGED <<now, stateVars, refVars, modalTimer, effects, run, fires, processed,
                   sinceReset, controlOps, lag, otherVars>>

SliderNext ==
    \/ \E value \in SliderValues : onChange(value)
    \/ Render

SliderSpec == Init /\ [][SliderNext]_vars

(***************************************************************************)
(* The clock inside one detection frame (lines 829-910).  The frame reads  *)
(* Date.now() four times: line 839 (the commit time), line 65 (inside      *)
(* calculateBlinkRate), line 865 (the session time) and line 877 (the      *)
(* cooldown and the alert time).  The clock may move between two reads.    *)
(* The frame is applied to a drawn state of a session that started at 10 s *)
(* after an alert at 8 s was dismissed.                                    *)
(***************************************************************************)
\* the session start and the time of the last alert
ClockStart == 10000
ClockLastAlert == 8000
\* the first read: 18 s into the session (3 blinks are exactly 10 / min) or 20 s
ClockNows == {28000, 30000}
ClockTimestamps == {<<>>, <<12000, 14000>>, <<12000, 14000, 16000>>}

\* four reads of a clock that starts at t and does not go back
ClockReads(t) ==
    {rd \in [1..4 -> t..(t + MaxDrift)] : \A i \in 1..3 : rd[i] <= rd[i + 1]}

ClockArgs ==
    [timestamps : ClockTimestamps, closed : BOOLEAN, frames : 0..MaxRun,
     active : BOOLEAN, rd : UNION {ClockReads(t) : t \in ClockNows}]

ClockInit == ComponentInit /\ LoopIdle /\ args \in ClockArgs /\ result = <<>>

\* lines 829-910 on the state a and the reads rd: what the frame commits,
\* the rate it computes, whether it fires, and lastAlertTime after it
FrameOutcome(a, rd) ==
    LET committed == ~a.closed /\ ValidBlink(a.frames)
        currentRate == calculateBlinkRate(a.timestamps, ROLLING_WINDOW_MINUTES,
                                          ClockStart, rd[2])
        fired == ShouldAlert(currentRate, DEFAULT_LOW_BLINK_THRESHOLD, rd[3], ClockStart,
                             a.timestamps, a.active, rd[4], ClockLastAlert)
    IN  [committed |-> committed,
         commitTime |-> IF committed THEN rd[1] ELSE Undefined,
         frames |-> NextConsecutive(a.closed, a.frames),
         rate |-> currentRate,
         sessionTime |-> rd[3] - ClockStart,
         fired |-> fired,
         lastAlertTime |-> IF fired THEN rd[4] ELSE ClockLastAlert]

ApplyFrame ==
    /\ result = <<>>
    /\ result' = <<FrameOutcome(args, args.rd)>>
    /\ UNCHANGED <<componentVars, loopVars, args>>

ClockNext == ApplyFrame

ClockSpec == ClockInit /\ [][ClockNext]_vars

(***************************************************************************)
(* Results without a face among the frames: the same component, the user   *)
(* leaves the controls alone, and a result without a face is kept in the   *)
(* history.                                                                *)
(***************************************************************************)
\* a faulty variant of NoFaceResult: a result without a face ends the blink run
NoFaceEndingRun ==
    /\ consecutiveBlinkFramesRef' = 0
    /\ last' = [Event("noFace") EXCEPT !.run = run]
    /\ UNCHANGED <<now, stateVars, blinkTimestampsRef, baselineEARRef, baselineEARBufferRef,
                   lastAlertTimeRef, isAlertActiveRef, startTimeRef, modalTimer, queue,
                   effects, run, fires, processed, sinceReset, controlOps, lag, otherVars>>

\* lines 775-778, as NoFace, with the history told of it
NoFaceResult ==
    /\ last' = [Event("noFace") EXCEPT !.run = run]
    /\ UNCHANGED <<now, stateVars, refVars, modalTimer, queue, effects, run, fires,
                   processed, sinceReset, controlOps, lag, otherVars>>

FaceFrame ==
    \/ NoFaceResult
    \/ \E l \in EarValues, r \in EarValues, rd \in Reads : onResults(TRUE, l, r, rd)

FaceNext ==
    \/ FaceFrame
    \/ autoDismiss
    \/ Render
    \/ Effects
    \/ Tick

FaceSpec == Init /\ [][FaceNext]_vars

(***************************************************************************)
(* The state copies as the next render will leave them                     *)
(***************************************************************************)
NextBlinkTimestamps == ApplyOps(blinkTimestamps, queue.blinkTimestamps)

NextBaselineEARBuffer == Pending(queue.baselineEARBuffer, baselineEARBuffer)

NextBaselineEAR == Pending(queue.baselineEAR, baselineEAR)

NextLastAlertTime == Pending(queue.lastAlertTime, lastAlertTime)

NextStartTime == Pending(queue.startTime, startTime)

\* the calibration buffer and the baseline, both copies
calibrationVars == <<baselineEARBuffer, baselineEAR, baselineEARBufferRef, baselineEARRef,
                     NextBaselineEARBuffer, NextBaselineEAR>>

(***************************************************************************)
(* Properties                                                              *)
(***************************************************************************)
\* C1: in detection, a closed frame lengthens the run and commits nothing;
\* the open frame that ends a run commits exactly one blink if the run was
\* 3 frames or longer and none if it was shorter, and the run restarts at 0.
C1_RunCommitsOneBlink ==
    [][last'.op = "detect" =>
         IF last'.closed
         THEN /\ TotalBlinkCount' = TotalBlinkCount
              /\ NextBlinkTimestamps' = NextBlinkTimestamps
              /\ run' = run + 1
         ELSE /\ TotalBlinkCount' = TotalBlinkCount + (IF run >= 3 THEN 1 ELSE 0)
              /\ Len(NextBlinkTimestamps') =
                     Len(NextBlinkTimestamps) + (IF run >= 3 THEN 1 ELSE 0)
              /\ last'.committed = (run >= 3)
              /\ run' = 0]_vars

\* an open frame ended a run of 4 closed frames and committed a blink
C1_Witness ==
    /\ last.op = "detect"
    /\ ~last.closed
    /\ last.run = 4
    /\ last.committed
    /\ TotalBlinkCount >= 1

\* C2: a frame fires an alert only if, on the values it reads, the rate is
\* below the threshold, the session is at least the minimum session time (0 s)
\* old, at least 3 blink timestamps are stored, no alert is active and more
\* than 5 s passed since lastAlertTime.
C2_FireOnlyIfAllHold ==
    [][(last'.op = "detect" /\ last'.fired) =>
         LET rate == calculateBlinkRate(blinkTimestampsRef, 4, startTimeRef, now')
         IN  /\ rate.num < lowBlinkThreshold * rate.den
             /\ now' - startTimeRef >= 0
             /\ Len(blinkTimestampsRef) >= 3
             /\ ~isAlertActiveRef
             /\ now' - lastAlertTimeRef > 5 * 1000]_vars

\* a frame fired an alert
C2_Witness ==
    /\ last.op = "detect"
    /\ last.fired
    /\ isAlertActiveRef
    /\ Len(blinkTimestampsRef) >= 3

\* C3: any two firings of the alert are more than the cooldown (5 s) apart,
\* whatever frames, dismissals and resets come between them.
C3_FiringsApart ==
    \A i, j \in 1..Len(fires) : i < j => fires[j] - fires[i] > 5 * 1000

\* the alert fired, a control operation followed, and the alert fired again
C3_Witness ==
    /\ Len(fires) >= 2
    /\ controlOps >= 1
    /\ last.fired

\* C4: the frame that fires sets the active flag and sets lastAlertTime to
\* the time of the firing, and a frame handled while the flag is set does
\* not fire.
C4_FireLatches ==
    [][last'.op = "detect" =>
         /\ last'.fired => /\ isAlertActiveRef'
                           /\ lastAlertTimeRef' = fires'[Len(fires')]
                           /\ NextLastAlertTime' = fires'[Len(fires')]
                           /\ Len(fires') = Len(fires) + 1
         /\ isAlertActiveRef => ~last'.fired /\ fires' = fires]_vars

\* after a firing and a step of the clock, a frame that meets the rate, the
\* session time and the blink count conditions did not fire: the flag is set
C4_Witness ==
    /\ last.op = "detect"
    /\ ~last.fired
    /\ isAlertActiveRef
    /\ Len(fires) = 1
    /\ now - fires[1] > 5 * 1000
    /\ IsLow(calculateBlinkRate(blinkTimestampsRef, 4, startTimeRef, now),
             lowBlinkThreshold)
    /\ now - startTimeRef >= 0
    /\ Len(blinkTimestampsRef) >= 3

\* C5 as stated: only dismissAlert changes the active flag from true to false.
C5_OnlyDismissClears ==
    [][(isAlertActiveRef /\ ~isAlertActiveRef') => last'.op = "dismissAlert"]_vars

\* C5: only dismissAlert and resetBlinkTracking change the active flag from
\* true to false; no frame, no calibration reset and no auto-dismiss timeout does.
C5_OnlyDismissOrSessionResetClears ==
    [][(isAlertActiveRef /\ ~isAlertActiveRef')
           => last'.op \in {"dismissAlert", "resetBlinkTracking"}]_vars

\* the alert fired and the only control operation since, a session reset,
\* cleared the flag
C5_Witness ==
    /\ last.op = "resetBlinkTracking"
    /\ controlOps = 1
    /\ Len(fires) = 1
    /\ ~isAlertActiveRef

\* C6: dismissAlert clears the active flag, empties the blink timestamps,
\* sets the session start to the current time, and leaves the total blink
\* count, the calibration buffer, the baseline and lastAlertTime unchanged.
C6_DismissEffect ==
    [][last'.op = "dismissAlert" =>
         /\ ~isAlertActiveRef'
         /\ blinkTimestampsRef' = <<>>
         /\ NextBlinkTimestamps' = <<>>
         /\ startTimeRef' = now'
         /\ NextStartTime' = now'
         /\ TotalBlinkCount' = TotalBlinkCount
         /\ UNCHANGED calibrationVars
         /\ UNCHANGED <<lastAlertTime, lastAlertTimeRef, NextLastAlertTime>>]_vars

\* the alert that fired was dismissed
C6_Witness ==
    /\ last.op = "dismissAlert"
    /\ Len(fires) = 1
    /\ controlOps = 1
    /\ lastAlertTimeRef = fires[1]
    /\ TotalBlinkCount >= 3
    /\ Len(baselineEARBufferRef) = 30

C8_SessionResetEffect ==
    [][last'.op = "resetBlinkTracking" =>
         /\ blinkTimestampsRef' = <<>>
         /\ NextBlinkTimestamps' = <<>>
         /\ now' - startTimeRef' = 0
         /\ now' - NextStartTime' = 0
         /\ TotalBlinkCount' = TotalBlinkCount
         /\ UNCHANGED calibrationVars]_vars

\* the session was reset later than it started, after blinks were counted
C8_Witness ==
    /\ last.op = "resetBlinkTracking"
    /\ startTimeRef > FirstNow
    /\ TotalBlinkCount >= 1
    /\ Len(baselineEARBufferRef) = 30

\* C9: the total blink count never decreases; it changes only on a frame
\* that commits a blink, and there it grows by exactly 1.
C9_CountMonotone ==
    [][/\ TotalBlinkCount' >= TotalBlinkCount
       /\ blinkCount' >= blinkCount
       /\ TotalBlinkCount' # TotalBlinkCount => last'.op = "detect" /\ last'.committed
       /\ (last'.op = "detect" /\ last'.committed)
              => TotalBlinkCount' = TotalBlinkCount + 1]_vars

\* a blink was committed after a control operation and the count went on
C9_Witness ==
    /\ last.op = "detect"
    /\ last.committed
    /\ controlOps >= 1
    /\ TotalBlinkCount >= 3

\* C10 as stated: from an empty calibration buffer and until a calibration
\* reset, each of the first 30 frames appends its average EAR to the buffer,
\* the baseline is the mean of the 30 values once the 30th is appended, and
\* the frames after the 30th leave the buffer and the baseline unchanged.
C10_CalibrationOfFirstFrames ==
    [][(last'.op \in {"calibrate", "detect"} /\ processed >= 0) =>
         IF processed < 30
         THEN /\ Len(baselineEARBufferRef') = processed + 1
              /\ SubSeq(baselineEARBufferRef', 1, processed) = baselineEARBufferRef
              /\ processed + 1 = 30
                     => SameNumber(baselineEARRef', Mean(baselineEARBufferRef'))
         ELSE UNCHANGED <<baselineEARBufferRef, baselineEARRef>>]_vars

\* C11 as stated: the calibration buffer never holds more than 30 values, and
\* once it holds 30 nothing but a calibration reset modifies it.
C11_FullBufferImmutable ==
    [][/\ Len(baselineEARBufferRef') <= 30
       /\ Len(baselineEARBuffer') <= 30
       /\ (Len(baselineEARBufferRef) = 30 /\ processed' >= 0)
              => baselineEARBufferRef' = baselineEARBufferRef
       /\ (Len(baselineEARBuffer) = 30 /\ processed' >= 0)
              => baselineEARBuffer' = baselineEARBuffer]_vars

\* C12 as stated: the first frame handled after resetCalibration, whatever
\* React did in between, is calibration sample 1 of 30 and does not go
\* through blink detection.
C12_ResetRestartsCalibration ==
    [][(last'.op \in {"calibrate", "detect"} /\ sinceReset = 0) =>
         /\ last'.op = "calibrate"
         /\ Len(baselineEARBufferRef') = 1]_vars

\* C13 as stated: resetBlinkTracking sets the blink run length to 0, so the
\* frame handled next after it commits no blink.
C13_SessionResetDiscardsRun ==
    [][/\ last'.op = "resetBlinkTracking" => consecutiveBlinkFramesRef' = 0
       /\ (last.op = "resetBlinkTracking" /\ last'.op = "detect") => ~last'.committed]_vars

\* C15 as stated: a committed blink adds 1 to the total blink count and one
\* timestamp, the commit time, to the blink timestamps, and the timestamps
\* the committing frame evaluates the rate and the blink count on hold it.
C15_CommitSeenBySameFrame ==
    [][(last'.op = "detect" /\ last'.committed) =>
         /\ TotalBlinkCount' = TotalBlinkCount + 1
         /\ Len(NextBlinkTimestamps') = Len(NextBlinkTimestamps) + 1
         /\ NextBlinkTimestamps'[Len(NextBlinkTimestamps')] = now'
         /\ \E i \in 1..Len(blinkTimestampsRef') : blinkTimestampsRef'[i] = now']_vars

\* C14: a frame is closed exactly when the left and the right EAR are both
\* strictly below 0.75 x baseline; a frame with exactly one eye below it is
\* open: the run does not grow, it ends at 0.
C14_BothEyesStrictlyBelow ==
    (result # <<>> /\ "lab" \in DOMAIN args) =>
        LET out == result[1]
            below(e) == /\ e >= 0
                        /\ 4 * e * args.baseline.den < 3 * args.baseline.num
        IN  /\ out.closed = (below(out.l) /\ below(out.r))
            /\ out.closed => out.frames = args.frames + 1
            /\ (below(out.l) # below(out.r)) => ~out.closed /\ out.frames = 0

\* the left eye was below the threshold, the right one exactly on it, in the
\* middle of a run: the frame was open and the run ended
C14_Witness ==
    /\ result # <<>>
    /\ "lab" \in DOMAIN args
    /\ args.baseline = [num |-> 40, den |-> 1]
    /\ result[1].l = 20
    /\ result[1].r = 30
    /\ args.frames = 2
    /\ ~result[1].closed
    /\ result[1].frames = 0

\* C16: calculateBlinkRate returns 0 when no timestamp is >= now - window,
\* else count(recent) / max(min(now - startTime, window) / 60000, 1/60);
\* [0, 10000, 20000] at now = 30000 with startTime = 0 gives exactly 6.
C16_RateFormula ==
    (result # <<>> /\ "timestamps" \in DOMAIN args /\ args.start # Undefined) =>
        LET rate == result[1]
            count == Cardinality({i \in 1..Len(args.timestamps) :
                                     args.timestamps[i] >= args.currentTime - 240000})
            capped == IF args.currentTime - args.start < 240000
                      THEN args.currentTime - args.start ELSE 240000
            floored == IF capped > 1000 THEN capped ELSE 1000
        IN  /\ rate.den > 0
            /\ count = 0 => rate.num = 0
            \* the drawn times are multiples of 500 ms: the cross product in units of 500
            /\ count > 0 => /\ rate.num % 500 = 0 /\ rate.den % 500 = 0 /\ floored % 500 = 0
                            /\ (rate.num \div 500) * (floored \div 500)
                                   = count * 120 * (rate.den \div 500)
            /\ args = [timestamps |-> <<0, 10000, 20000>>, start |-> 0,
                       currentTime |-> 30000] => rate.num = 6 * rate.den

\* the rate of [0, 10000, 20000] at 30000 was computed, and is 6
C16_Witness ==
    /\ result # <<>>
    /\ args = [timestamps |-> <<0, 10000, 20000>>, start |-> 0, currentTime |-> 30000]
    /\ result[1].num = 6 * result[1].den

\* C20: a frame in which the EAR of either eye is Infinity or NaN is open,
\* whatever the (finite) threshold: the run does not grow.
C20_NonFiniteIsOpen ==
    (result # <<>> /\ "lab" \in DOMAIN args) =>
        LET out == result[1]
        IN  (out.l \in {PosInfinity, NaN} \/ out.r \in {PosInfinity, NaN})
                => ~out.closed /\ out.frames = 0

\* the right eye was closed and the left EAR was NaN (A + B = 0 and C = 0),
\* in the middle of a run: the frame was open
C20_Witness ==
    /\ result # <<>>
    /\ "lab" \in DOMAIN args
    /\ args.lab = 0
    /\ args.lc = 0
    /\ result[1].l = NaN
    /\ result[1].r = 20
    /\ args.frames = 2
    /\ ~result[1].closed
    /\ result[1].frames = 0

\* the values of a sequence
Values(seq) == {seq[i] : i \in 1..Len(seq)}

\* C17: once a blink is committed at time t the stored blink timestamps hold
\* t and nothing older than t - 4 minutes: so the state copy as the
\* committing frame queues it, and so both copies when the render has run
\* the queued updaters.
C17_CommitPrunes ==
    [][/\ (last'.op = "detect" /\ last'.committed) =>
              /\ now' \in Values(NextBlinkTimestamps')
              /\ \A t \in Values(NextBlinkTimestamps') : t >= now' - 4 * 60 * 1000
       /\ (queue' = EmptyQueue /\ LastAppend(queue.blinkTimestamps) = Len(queue.blinkTimestamps)
              /\ queue.blinkTimestamps # <<>>) =>
              LET t == queue.blinkTimestamps[Len(queue.blinkTimestamps)].t
              IN  /\ t \in Values(blinkTimestamps')
                  /\ blinkTimestampsRef' = blinkTimestamps'
                  /\ \A u \in Values(blinkTimestamps') : u >= t - 4 * 60 * 1000]_vars

\* a blink was committed and an older timestamp is no longer stored
C17_Witness ==
    /\ last.op = "detect"
    /\ last.committed
    /\ controlOps = 0
    /\ now > 4 * 60 * 1000
    /\ TotalBlinkCount > Len(NextBlinkTimestamps)

\* C18: a frame with a face on which, on the values the frame reads, the rate
\* is below the threshold, the session is at least 0 s old, at least 3 blink
\* timestamps are stored, no alert is active and more than 5 s passed since
\* lastAlertTime, fires an alert, be it a calibration or a detection frame.
C18_FireWhenAllHold ==
    [][(/\ last'.op \in {"calibrate", "detect"}
        /\ LET rate == calculateBlinkRate(blinkTimestampsRef, 4, startTimeRef, now')
           IN  rate.num < lowBlinkThreshold * rate.den
        /\ now' - startTimeRef >= 0
        /\ Len(blinkTimestampsRef) >= 3
        /\ ~isAlertActiveRef
        /\ now' - lastAlertTimeRef > 5 * 1000)
           => /\ last'.fired
              /\ Len(fires') = Len(fires) + 1]_vars

\* the alert fired, was dismissed (lastAlertTime was not reset), and a later
\* frame fired it again
C18_Witness ==
    /\ last.op = "detect"
    /\ last.fired
    /\ Len(fires) = 2
    /\ controlOps = 1
    /\ lastAlertTime = fires[1]
    /\ fires[2] - fires[1] > 5 * 1000

\* C19 as stated: at most one faceMesh.send is in flight at any time, under
\* any interleaving of interval ticks, visibility changes and starts of the
\* processing loop.
C19_OneFrameInFlight == inFlight <= 1

\* C21: the session start time (the ref copy, and the state copy as the next
\* render will leave it) changes only in dismissAlert, resetCalibration and
\* resetBlinkTracking, each of which sets it to the time of the operation; a
\* frame, whether it commits a blink or fires an alert, leaves it unchanged.
C21_StartTimeOnlyByControlOps ==
    [][/\ (startTimeRef' # startTimeRef \/ NextStartTime' # NextStartTime)
              => last'.op \in {"dismissAlert", "resetCalibration", "resetBlinkTracking"}
       /\ last'.op \in {"dismissAlert", "resetCalibration", "resetBlinkTracking"}
              => startTimeRef' = now' /\ NextStartTime' = now'
       /\ last'.op \in {"calibrate", "detect"}
              => startTimeRef' = startTimeRef /\ NextStartTime' = NextStartTime]_vars

\* a frame fired an alert in a session that a control operation had
\* restarted: the session start is still the time of that operation
C21_Witness ==
    /\ last.op = "detect"
    /\ last.fired
    /\ controlOps = 1
    /\ startTimeRef > FirstNow
    /\ startTimeRef < now
    /\ NextStartTime = startTimeRef

C23_FireCountsWindowOnly ==
    [][(last'.op = "detect" /\ last'.fired) =>
         Cardinality({i \in 1..Len(blinkTimestampsRef) :
                         blinkTimestampsRef[i] >= now' - 4 * 60 * 1000}) >= 3]_vars

\* C24 as stated: what a detection frame does is a function of the stored
\* state and one timestamp: there is a time T among those the frame read
\* such that the commit time, the rate, the session duration, the decision
\* to fire and lastAlertTime are those of a frame that reads T every time.
C24_OneTimestampPerFrame ==
    (result # <<>> /\ "rd" \in DOMAIN args) =>
        \E T \in {args.rd[i] : i \in 1..4} :
            result[1] = FrameOutcome(args, [i \in 1..4 |-> T])

\* C25: a frame with a face that finds fewer than 30 samples in the
\* calibration buffer it reads is a calibration frame: it commits no blink,
\* fires no alert, and leaves the blink run length, the blink timestamps,
\* the total blink count and the alert state unchanged.
C25_CalibrationFrameOnlyCalibrates ==
    [][(last'.op \in {"calibrate", "detect"} /\ Len(baselineEARBufferRef) < 30) =>
         /\ last'.op = "calibrate"
         /\ ~last'.committed
         /\ ~last'.fired
         /\ fires' = fires
         /\ TotalBlinkCount' = TotalBlinkCount
         /\ NextBlinkTimestamps' = NextBlinkTimestamps
         /\ NextLastAlertTime' = NextLastAlertTime
         /\ UNCHANGED <<consecutiveBlinkFramesRef, blinkTimestampsRef, blinkTimestamps,
                        isAlertActiveRef, lastAlertTimeRef>>]_vars

\* a calibration frame was handled in the middle of a run of closed frames,
\* after blinks were counted: the run length is as it was
C25_Witness ==
    /\ last.op = "calibrate"
    /\ consecutiveBlinkFramesRef > 0
    /\ TotalBlinkCount >= 1
    /\ Len(baselineEARBufferRef) < 30

\* C26: a result without a face changes nothing of the calibration buffer,
\* the baseline, the blink run length, the blink timestamps, the total blink
\* count, the alert state and the session start; the frame with a face that
\* follows it continues the run: closed, it makes the run one longer, open,
\* it commits a blink exactly if the run before the gap was 3 frames or longer.
C26_NoFaceChangesNothing ==
    [][/\ last'.op = "noFace" =>
              /\ UNCHANGED calibrationVars
              /\ UNCHANGED <<consecutiveBlinkFramesRef, run>>
              /\ UNCHANGED <<blinkTimestamps, blinkTimestampsRef, NextBlinkTimestamps>>
              /\ TotalBlinkCount' = TotalBlinkCount
              /\ UNCHANGED <<isAlertActiveRef, lastAlertTime, lastAlertTimeRef,
                             NextLastAlertTime, fires>>
              /\ UNCHANGED <<startTime, startTimeRef, NextStartTime>>
       /\ (last.op = "noFace" /\ last'.op = "detect") =>
              IF last'.closed
              THEN /\ consecutiveBlinkFramesRef' = last.run + 1
                   /\ ~last'.committed
              ELSE /\ last'.committed = (last.run >= 3)
                   /\ TotalBlinkCount' = TotalBlinkCount + (IF last.run >= 3 THEN 1 ELSE 0)]_vars

\* a result without a face arrived two frames into a run of closed frames,
\* after a blink was counted: the run length is still 2
C26_Witness ==
    /\ last.op = "noFace"
    /\ last.run = 2
    /\ consecutiveBlinkFramesRef = 2
    /\ TotalBlinkCount >= 1
    /\ Len(baselineEARBufferRef) = 30

\* C27: the auto-dismiss timeout hides the modal and nothing else: the active
\* flag, lastAlertTime, the blink timestamps, the session start and the total
\* blink count are as they were.  While the active flag is set, and so after
\* the modal of a fired alert was dismissed by the timeout, no alert fires
\* and the flag stays set until dismissAlert or resetBlinkTracking.
C27_AutoDismissOnlyHides ==
    [][/\ last'.op = "autoDismiss" =>
              /\ Pending(queue'.showAlertModal, showAlertModal') = FALSE
              /\ UNCHANGED <<isAlertActiveRef, lastAlertTime, lastAlertTimeRef,
                             NextLastAlertTime>>
              /\ UNCHANGED <<blinkTimestamps, blinkTimestampsRef, NextBlinkTimestamps>>
              /\ UNCHANGED <<startTime, startTimeRef, NextStartTime>>
              /\ TotalBlinkCount' = TotalBlinkCount
       /\ (isAlertActiveRef /\ last'.op \notin {"dismissAlert", "resetBlinkTracking"})
              => isAlertActiveRef' /\ fires' = fires]_vars

\* the alert fired, the timeout hid its modal, and a later frame on which the
\* rate is low, 3 timestamps are stored and the cooldown has passed did not
\* fire
C27_Witness ==
    /\ last.op = "detect"
    /\ ~last.fired
    /\ isAlertActiveRef
    /\ Len(fires) = 1
    /\ controlOps = 0
    /\ ~showAlertModal
    /\ modalTimer = 0
    /\ queue = EmptyQueue
    /\ now - fires[1] > 5 * 1000
    /\ IsLow(calculateBlinkRate(blinkTimestampsRef, 4, startTimeRef, now),
             lowBlinkThreshold)
    /\ Len(blinkTimestampsRef) >= 3

\* C28 as stated: on every detection frame, each blink timestamp the frame
\* passes to calculateBlinkRate is >= the session start it passes with them.
C28_TimestampsWithinSession ==
    [][last'.op = "detect" =>
         \A i \in 1..Len(blinkTimestampsRef) : blinkTimestampsRef[i] >= startTimeRef]_vars

\* C29 as stated: whenever no state update and no sync effect is pending,
\* each of the five refs equals its state copy; and the sync effects never
\* replace a ref by an older value: as long as calibration was never reset,
\* they do not take back a sample that a frame appended to the ref buffer.
C29_RefsFollowState ==
    [][/\ (queue' = EmptyQueue /\ effects' = {}) =>
              /\ blinkTimestampsRef' = blinkTimestamps'
              /\ baselineEARBufferRef' = baselineEARBuffer'
              /\ SameNumber(baselineEARRef', baselineEAR')
              /\ lastAlertTimeRef' = lastAlertTime'
              /\ startTimeRef' = startTime'
       /\ (effects # {} /\ effects' = {} /\ processed >= 0) =>
              Len(baselineEARBufferRef') >= Len(baselineEARBufferRef)]_vars

\* C30 as stated: once the cleanup of the effect has run, no interval set by
\* any call of processVideo or startProcessing is still set.
C30_NoIntervalAfterCleanup == unmounted => \A site \in Sites : ~Live(site)

\* C31 as stated: in the state a frame with a face finds, the baseline it
\* reads is null exactly when the calibration buffer it reads is empty, and
\* is otherwise the mean of that buffer; with 30 samples in the buffer the
\* frame goes through detection.
C31_BaselineIsMeanOfBuffer ==
    [][last'.op \in {"calibrate", "detect"} =>
         /\ (baselineEARBufferRef = <<>>) <=> (baselineEARRef = Null)
         /\ baselineEARBufferRef # <<>>
                => SameNumber(baselineEARRef, Mean(baselineEARBufferRef))
         /\ Len(baselineEARBufferRef) = 30 => last'.op = "detect"]_vars

====
